---- MODULE Spec2Model ----
(***************************************************************************)
(* Clinical-trials mirror: persistence layer (database.py), page fetcher   *)
(* (fetcher.py), full load (load.py) and daily sync (sync.py).             *)
(*                                                                         *)
(* Text values that are compared with < or >= (dates) are sequences of     *)
(* character codes; other text values are TLA+ strings.                    *)
(***************************************************************************)
EXTENDS Integers, Sequences, FiniteSets, TLC

VARIABLES
    trials,       \* the committed rows of table trials, in rowid order
    lastCall,     \* the last call on the persistence layer and how it ended
    ret,          \* what that call returned (get_since: list of dicts)
    twice,        \* TRUE when the last two calls were upsert of the same trial
    lastWritten,  \* nct_id -> the trial of the latest successful write of it
    prevWritten,  \* nct_id -> the trial of the write before that one
    mode,         \* "idle", "load" (load.py main) or "sync" (sync.py main)
    pc,           \* position of the running script
    params,       \* the query parameters of the next request (a dict)
    response,     \* the response the script holds
    studies,      \* fetcher.py: the list fetch_trials accumulates; load.py: studies
    processed,    \* load.py: processed; sync.py: count
    error,        \* the exception that ended the run, "" when none
    log,          \* every request with its answer, every sleep and every write of the run
    budget429,    \* upstream: 429 answers it may still give
    afterPage,    \* the table when the last fully persisted page of the run was written
    rawStudy,     \* normalizer.py: the decoded JSON value handed to normalize
    normalized    \* normalizer.py: how that call of normalize ended

dbVars == <<trials, lastCall, ret, twice, lastWritten, prevWritten>>
runVars == <<mode, pc, params, response, studies, processed, error, log,
             budget429, afterPage>>
normVars == <<rawStudy, normalized>>
vars == <<trials, lastCall, ret, twice, lastWritten, prevWritten,
          mode, pc, params, response, studies, processed, error, log,
          budget429, afterPage, rawStudy, normalized>>

(***************************************************************************)
(* Bounds of the model.                                                    *)
(***************************************************************************)
MaxBatch == 2      \* longest list handed to upsert_many by a direct caller
MaxPages == 2      \* pages the upstream serves in one run
Max429 == 2        \* 429 answers the upstream gives in one run

(***************************************************************************)
(* Values.                                                                 *)
(***************************************************************************)
Ids == {"NCT1", "NCT2"}

\* A value sqlite3 cannot bind to a parameter (a JSON object or array where
\* the schema expects text): binding it raises.
Unbindable == "<dict>"

\* ISO dates abstracted to short strings of character codes: "", "1", "10", "2".
Dates == {<<>>, <<1>>, <<1, 0>>, <<2>>}

Min(a, b) == IF a <= b THEN a ELSE b

\* a < b for str values, as Python and SQLite's BINARY collation compare them
RECURSIVE StrLess(_, _)
StrLess(a, b) ==
    IF b = <<>> THEN FALSE
    ELSE IF a = <<>> THEN TRUE
    ELSE IF a[1] # b[1] THEN a[1] < b[1]
    ELSE StrLess(Tail(a), Tail(b))

\* The normalized dict of one trial (the keys the model keeps of the 22).
Trial(id, lu, title, ph, hr) ==
    [nct_id |-> id, brief_title |-> title, last_updated |-> lu,
     phases |-> ph, has_results |-> hr]

\* Two versions of each trial, differing in every field but nct_id, and one
\* trial that cannot be written.
GoodTrials ==
    {Trial("NCT1", <<>>, "A", <<>>, FALSE),
     Trial("NCT1", <<1, 0>>, "B", <<"PHASE1", "PHASE2">>, TRUE),
     Trial("NCT2", <<1>>, "B", <<"PHASE1">>, TRUE),
     Trial("NCT2", <<2>>, "A", <<>>, FALSE)}
BadTrials == {Trial("NCT2", <<1>>, Unbindable, <<"PHASE3">>, FALSE)}
Trials == GoodTrials \cup BadTrials

RECURSIVE SeqsUpTo(_, _)
SeqsUpTo(S, n) ==
    IF n = 0 THEN {<<>>}
    ELSE LET shorter == SeqsUpTo(S, n - 1)
         IN shorter \cup {Append(s, x) : s \in {t \in shorter : Len(t) = n - 1}, x \in S}

(***************************************************************************)
(* database.py                                                             *)
(***************************************************************************)
RECURSIVE JsonItems(_)
JsonItems(list) ==
    IF list = <<>> THEN <<>>
    ELSE IF Len(list) = 1 THEN <<list[1]>>
    ELSE <<list[1], ",">> \o JsonItems(Tail(list))

\* json.dumps of a list of strings, as the sequence of its tokens
JsonDumps(list) == <<"[">> \o JsonItems(list) \o <<"]">>

\* json.loads of such a text: the items between the brackets
JsonLoads(text) ==
    LET inner == SubSeq(text, 2, Len(text) - 1)
    IN SelectSeq(inner, LAMBDA tok : tok # ",")

\* _serialize: list fields to JSON text, has_results to 1 / 0
Serialize(trial) ==
    [nct_id |-> trial.nct_id,
     brief_title |-> trial.brief_title,
     last_updated |-> trial.last_updated,
     phases |-> JsonDumps(trial.phases),
     has_results |-> IF trial.has_results THEN 1 ELSE 0]

\* a mutant: the list fields are handed back as the stored text
Deserialize_NoLoads(row) ==
    [nct_id |-> row.nct_id,
     brief_title |-> row.brief_title,
     last_updated |-> row.last_updated,
     phases |-> row.phases,
     has_results |-> row.has_results # 0]

\* get_since lines 124-127: a row back to a dict
Deserialize(row) ==
    [nct_id |-> row.nct_id,
     brief_title |-> row.brief_title,
     last_updated |-> row.last_updated,
     phases |-> JsonLoads(IF row.phases = <<>> THEN <<"[", "]">> ELSE row.phases),
     has_results |-> row.has_results # 0]

\* sqlite3 binds None, int, float, str and bytes only
Bindable(row) == row.brief_title # Unbindable

\* a mutant: ON CONFLICT(nct_id) DO NOTHING
DoUpdate_Nothing(old, excluded) == old

\* ON CONFLICT(nct_id) DO UPDATE SET k = excluded.k for every k but nct_id
DoUpdate(old, excluded) ==
    [old EXCEPT !.brief_title = excluded.brief_title,
                !.last_updated = excluded.last_updated,
                !.phases = excluded.phases,
                !.has_results = excluded.has_results]

\* a mutant: a table without the PRIMARY KEY, every insert adds a row
InsertOnConflict_NoKey(tbl, row) == Append(tbl, row)

\* INSERT INTO trials ... ON CONFLICT(nct_id) DO UPDATE SET ...
InsertOnConflict(tbl, row) ==
    IF \E i \in DOMAIN tbl : tbl[i].nct_id = row.nct_id
    THEN [i \in DOMAIN tbl |->
            IF tbl[i].nct_id = row.nct_id THEN DoUpdate(tbl[i], row) ELSE tbl[i]]
    ELSE Append(tbl, row)

\* conn.execute(sql, values): the table after it, and whether it raised
Execute(tbl, row) ==
    IF Bindable(row) THEN [tbl |-> InsertOnConflict(tbl, row), raised |-> FALSE]
    ELSE [tbl |-> tbl, raised |-> TRUE]

\* conn.executemany(sql, rows): row by row, stopping at the first that raises
RECURSIVE ExecuteMany(_, _)
ExecuteMany(tbl, rows) ==
    IF rows = <<>> THEN [tbl |-> tbl, raised |-> FALSE]
    ELSE LET one == Execute(tbl, rows[1])
         IN IF one.raised THEN one ELSE ExecuteMany(one.tbl, Tail(rows))

\* a mutant: the connection commits what was written when the block raises
WithConn_CommitOnError(committed, outcome) == outcome.tbl

\* with _connect() as conn: commit when the block ends, rollback when it raises
WithConn(committed, outcome) ==
    IF outcome.raised THEN committed ELSE outcome.tbl

\* a mutant: WHERE last_updated > ?
Where_Strict(row, date_str) == StrLess(date_str, row.last_updated)

\* WHERE last_updated >= ?
Where(row, date_str) == ~StrLess(row.last_updated, date_str)

\* SELECT * FROM trials WHERE last_updated >= ?
Select(tbl, date_str) == SelectSeq(tbl, LAMBDA row : Where(row, date_str))

\* get_since: the selected rows, each deserialized
GetSinceResult(tbl, date_str) ==
    LET rows == Select(tbl, date_str)
    IN [i \in 1..Len(rows) |-> Deserialize(rows[i])]

\* the trial written last for nct_id x by a list of trials (ghost bookkeeping)
LastIndex(batch, x) ==
    LET at == {i \in 1..Len(batch) : batch[i].nct_id = x}
    IN CHOOSE i \in at : \A j \in at : j <= i

IdsOf(batch) == {batch[i].nct_id : i \in 1..Len(batch)}

\* lastWritten and prevWritten after the trials of batch were written in order
WrittenAfter(lw, batch) ==
    [x \in DOMAIN lw \cup IdsOf(batch) |->
        IF x \in IdsOf(batch) THEN batch[LastIndex(batch, x)] ELSE lw[x]]

PrevAfter(lw, pw, batch) ==
    LET olds == {x \in IdsOf(batch) :
                    x \in DOMAIN lw \/ Cardinality({i \in 1..Len(batch) : batch[i].nct_id = x}) > 1}
    IN [x \in DOMAIN pw \cup olds |->
        IF x \in olds
        THEN LET before == SubSeq(batch, 1, LastIndex(batch, x) - 1)
             IN IF x \in IdsOf(before) THEN before[LastIndex(before, x)] ELSE lw[x]
        ELSE pw[x]]

\* position of the first row of rows that cannot be bound, 0 when none
FirstUnbindable(rows) ==
    LET bad == {i \in 1..Len(rows) : ~Bindable(rows[i])}
    IN IF bad = {} THEN 0 ELSE CHOOSE i \in bad : \A j \in bad : i <= j

NoCall == [op |-> "none", raised |-> FALSE]

\* a mutant: init_db drops the table and creates it again
DbInitDb_Recreate ==
    /\ lastCall' = [op |-> "init_db", raised |-> FALSE]
    /\ ret' = <<>>
    /\ twice' = FALSE
    /\ trials' = <<>>
    /\ UNCHANGED <<lastWritten, prevWritten>>

\* init_db(): what the call does to the persistence layer
DbInitDb ==
    /\ lastCall' = [op |-> "init_db", raised |-> FALSE]
    /\ ret' = <<>>
    /\ twice' = FALSE
    /\ UNCHANGED <<trials, lastWritten, prevWritten>>

\* init_db(): CREATE TABLE / INDEX IF NOT EXISTS, called on its own
InitDb == DbInitDb /\ UNCHANGED <<runVars, normVars>>

\* is_empty()
IsEmpty ==
    /\ lastCall' = [op |-> "is_empty", raised |-> FALSE, empty |-> (Len(trials) = 0)]
    /\ ret' = <<>>
    /\ twice' = FALSE
    /\ UNCHANGED <<trials, lastWritten, prevWritten>>
    /\ UNCHANGED <<runVars, normVars>>

\* upsert(trial): what the call does to the persistence layer
DbUpsert(trial) ==
    \E outcome \in {Execute(trials, Serialize(trial))} :
       /\ trials' = WithConn(trials, outcome)
       /\ lastCall' = [op |-> "upsert", raised |-> outcome.raised, arg |-> trial]
       /\ ret' = <<>>
       /\ twice' = (lastCall.op = "upsert" /\ lastCall.arg = trial)
       /\ lastWritten' = IF outcome.raised THEN lastWritten
                         ELSE WrittenAfter(lastWritten, <<trial>>)
       /\ prevWritten' = IF outcome.raised THEN prevWritten
                         ELSE PrevAfter(lastWritten, prevWritten, <<trial>>)

\* upsert(trial), called on its own
Upsert(trial) == DbUpsert(trial) /\ UNCHANGED <<runVars, normVars>>

\* a mutant: the rows are written from the last to the first
UpsertManyOutcome_Reversed(tbl, batch) ==
    IF batch = <<>> THEN [tbl |-> tbl, raised |-> FALSE]
    ELSE ExecuteMany(tbl, [i \in 1..Len(batch) |-> Serialize(batch[Len(batch) + 1 - i])])

\* upsert_many(trials) on table tbl: nothing for an empty list, else executemany
UpsertManyOutcome(tbl, batch) ==
    IF batch = <<>> THEN [tbl |-> tbl, raised |-> FALSE]
    ELSE ExecuteMany(tbl, [i \in 1..Len(batch) |-> Serialize(batch[i])])

\* upsert_many(trials): what the call does to the persistence layer
DbUpsertMany(batch) ==
    \E outcome \in {UpsertManyOutcome(trials, batch)} :
       /\ trials' = WithConn(trials, outcome)
       /\ lastCall' = [op |-> "upsert_many", raised |-> outcome.raised,
                       n |-> Len(batch),
                       at |-> FirstUnbindable([i \in 1..Len(batch) |-> Serialize(batch[i])])]
       /\ ret' = <<>>
       /\ twice' = FALSE
       /\ lastWritten' = IF outcome.raised THEN lastWritten
                         ELSE WrittenAfter(lastWritten, batch)
       /\ prevWritten' = IF outcome.raised THEN prevWritten
                         ELSE PrevAfter(lastWritten, prevWritten, batch)

\* upsert_many(trials), called on its own
UpsertMany(batch) == DbUpsertMany(batch) /\ UNCHANGED <<runVars, normVars>>

\* get_since(date_str)
GetSince(date_str) ==
    /\ lastCall' = [op |-> "get_since", raised |-> FALSE, arg |-> date_str]
    /\ ret' = GetSinceResult(trials, date_str)
    /\ twice' = FALSE
    /\ UNCHANGED <<trials, lastWritten, prevWritten>>
    /\ UNCHANGED <<runVars, normVars>>

EmptyDict == <<>>

InitRunIdle ==
    /\ mode = "idle"
    /\ pc = "idle"
    /\ params = EmptyDict
    /\ response = [status |-> 0, body |-> EmptyDict]
    /\ studies = <<>>
    /\ processed = 0
    /\ error = ""
    /\ log = <<>>
    /\ budget429 = 0
    /\ afterPage = <<>>

\* normalize has not been called
InitNormIdle ==
    /\ rawStudy = [t |-> "null"]
    /\ normalized = [called |-> FALSE]

InitDB ==
    /\ trials = <<>>
    /\ lastCall = NoCall
    /\ ret = <<>>
    /\ twice = FALSE
    /\ lastWritten = <<>>
    /\ prevWritten = <<>>
    /\ InitRunIdle
    /\ InitNormIdle

NextDB ==
    \/ InitDb
    \/ IsEmpty
    \/ \E trial \in Trials : Upsert(trial)
    \/ \E batch \in SeqsUpTo(Trials, MaxBatch) : UpsertMany(batch)
    \/ \E date_str \in Dates : GetSince(date_str)

\* The persistence layer under any sequence of calls
SpecDB == InitDB /\ [][NextDB]_vars

(***************************************************************************)
(* Claims about the persistence layer, checked under SpecDB.               *)
(***************************************************************************)
RowsOf(tbl, x) == {i \in DOMAIN tbl : tbl[i].nct_id = x}

\* a <= b in lexicographic order: a is a prefix of b, or a is smaller at the
\* first position where they differ
LexLeq(a, b) ==
    \/ Len(a) <= Len(b) /\ SubSeq(b, 1, Len(a)) = a
    \/ \E k \in 1..Min(Len(a), Len(b)) :
          /\ SubSeq(a, 1, k - 1) = SubSeq(b, 1, k - 1)
          /\ a[k] < b[k]

\* C1: after any calls the table holds at most one row per nct_id, and after
\* upsert(T) called twice in a row exactly one row has T's nct_id and reads
\* back as T, field by field.
C1_UpsertIdempotent ==
    /\ \A x \in Ids : Cardinality(RowsOf(trials, x)) <= 1
    /\ (twice /\ ~lastCall.raised) =>
          /\ Cardinality(RowsOf(trials, lastCall.arg.nct_id)) = 1
          /\ \A i \in RowsOf(trials, lastCall.arg.nct_id) :
                Deserialize(trials[i]) = lastCall.arg

\* upsert(T) ran twice in a row on a table that holds another trial as well
C1_Witness ==
    /\ twice
    /\ ~lastCall.raised
    /\ Len(trials) = 2

\* C2: for every identifier written, the table holds one row for it and every
\* field of that row is the value of the latest successful write (B); where
\* the write before it (A) differs from B, A's value is not in the row.
C2_LastWriteWins ==
    \A x \in DOMAIN lastWritten :
        /\ Cardinality(RowsOf(trials, x)) = 1
        /\ \A i \in RowsOf(trials, x) :
              LET got == Deserialize(trials[i])
                  B == lastWritten[x]
              IN /\ got = B
                 /\ x \in DOMAIN prevWritten =>
                       LET A == prevWritten[x]
                       IN /\ A.brief_title # B.brief_title => got.brief_title # A.brief_title
                          /\ A.last_updated # B.last_updated => got.last_updated # A.last_updated
                          /\ A.phases # B.phases => got.phases # A.phases
                          /\ A.has_results # B.has_results => got.has_results # A.has_results

\* upsert_many overwrote a trial by another value of the same identifier
C2_Witness ==
    /\ lastCall.op = "upsert_many"
    /\ ~lastCall.raised
    /\ \E x \in DOMAIN prevWritten :
          /\ prevWritten[x].brief_title # lastWritten[x].brief_title
          /\ prevWritten[x].last_updated # lastWritten[x].last_updated
          /\ prevWritten[x].phases # lastWritten[x].phases

\* C3: get_since(D) returns each row with D <= last_updated exactly once, no
\* row with last_updated < D, and nothing that is not a row of the table.
C3_RangeQuery ==
    lastCall.op = "get_since" =>
        /\ \A i \in DOMAIN trials :
              Cardinality({k \in DOMAIN ret : ret[k].nct_id = trials[i].nct_id})
                 = IF LexLeq(lastCall.arg, trials[i].last_updated) THEN 1 ELSE 0
        /\ \A k \in DOMAIN ret : \E i \in DOMAIN trials : ret[k] = Deserialize(trials[i])

\* get_since of a non-empty date left out a row whose last_updated is empty
\* and returned a row whose last_updated equals the date
C3_Witness ==
    /\ lastCall.op = "get_since"
    /\ lastCall.arg # <<>>
    /\ \E i \in DOMAIN trials : trials[i].last_updated = <<>>
    /\ Len(ret) = 1
    /\ ret[1].last_updated = lastCall.arg

\* C4: an upsert_many that raises leaves the table as it was before the call.
C4_UpsertManyAtomic ==
    [][(lastCall'.op = "upsert_many" /\ lastCall'.raised) => trials' = trials]_vars

\* upsert_many raised on the second row of its list, on a table with rows
C4_Witness ==
    /\ lastCall.op = "upsert_many"
    /\ lastCall.raised
    /\ lastCall.at = 2
    /\ Len(trials) > 0

(***************************************************************************)
(* The upstream API, fetcher.py, load.py and sync.py                       *)
(***************************************************************************)
PAGE_SIZE == 1000          \* fetcher.py
LOAD_PAGE_SIZE == 1000     \* load.py PAGE_SIZE
SLEEP_BETWEEN == 500       \* 0.5 s, in milliseconds
RETRY_429_WAIT == 60000    \* 60 s, in milliseconds

\* Python's None: no str value (a str is a sequence of character codes >= 0)
None == <<-1>>

\* dict.get(key, default)
Get(d, key, default) == IF key \in DOMAIN d THEN d[key] ELSE default

\* d[key] = value
SetKey(d, key, value) ==
    [k \in DOMAIN d \cup {key} |-> IF k = key THEN value ELSE d[k]]

\* normalize(raw), for the keys the model keeps
normalize(raw) ==
    LET protocol == Get(raw, "protocolSection", EmptyDict)
        identification == Get(protocol, "identificationModule", EmptyDict)
        status_module == Get(protocol, "statusModule", EmptyDict)
        design == Get(protocol, "designModule", EmptyDict)
    IN [nct_id |-> Get(identification, "nctId", ""),
        brief_title |-> Get(identification, "briefTitle", ""),
        last_updated |-> Get(Get(status_module, "lastUpdatePostDateStruct", EmptyDict),
                             "date", <<>>),
        phases |-> Get(design, "phases", <<>>),
        has_results |-> Get(raw, "hasResults", FALSE)]

\* the raw study of the upstream API that normalizes to trial t
Raw(t) ==
    [protocolSection |->
        [identificationModule |-> [nctId |-> t.nct_id, briefTitle |-> t.brief_title],
         statusModule |-> [lastUpdatePostDateStruct |-> [date |-> t.last_updated]],
         designModule |-> [phases |-> t.phases]],
     hasResults |-> t.has_results]

\* a raw study with nothing but its identification module
R1a == [protocolSection |->
           [identificationModule |-> [nctId |-> "NCT1", briefTitle |-> "A"]]]
R1b == Raw(Trial("NCT1", <<1, 0>>, "B", <<"PHASE1", "PHASE2">>, TRUE))
R2 == Raw(Trial("NCT2", <<1>>, "B", <<"PHASE1">>, TRUE))
RBad == Raw(Trial("NCT2", <<1>>, Unbindable, <<"PHASE3">>, FALSE))

\* the lists of studies a page of the upstream may hold
Pages == {<<>>, <<R1a, R2>>, <<R1b, RBad>>, <<R1a, R1b>>}

\* a trial loaded by an earlier run
OldTrial == Trial("NCT2", <<2>>, "A", <<>>, FALSE)

\* a mutant: the last study of the page is left out
NormalizeAll_DropLast(raws) == [i \in 1..(Len(raws) - 1) |-> normalize(raws[i])]

\* load.py line 49: [normalize(s) for s in studies]
NormalizeAll(raws) == [i \in 1..Len(raws) |-> normalize(raws[i])]

\* the page a request asks for: the first without pageToken, else the token's
PageIndex(p) ==
    IF "pageToken" \in DOMAIN p /\ p["pageToken"] # <<>> THEN p["pageToken"][1] ELSE 1

\* a mutant: `next_token is None`
Falsy_NoneOnly(tok) == tok = None

\* `not next_token`
Falsy(tok) == tok = None \/ tok = <<>>

\* a mutant: only server errors raise
RaisesForStatus_ServerOnly(status) == status >= 500

\* response.raise_for_status() raises for every status that is not 2xx
RaisesForStatus(status) == ~(200 <= status /\ status < 300)

Sleep(ms) == [e |-> "sleep", ms |-> ms]

\* the lists of studies of the successful responses among the first n entries
\* of the log, in order
RECURSIVE FetchedUpTo(_, _)
FetchedUpTo(l, n) ==
    IF n = 0 THEN <<>>
    ELSE IF l[n].e = "GET" /\ l[n].status = 200
         THEN Append(FetchedUpTo(l, n - 1), Get(l[n].body, "studies", <<>>))
         ELSE FetchedUpTo(l, n - 1)

FetchedPages(l) == FetchedUpTo(l, Len(l))

RECURSIVE Concat(_)
Concat(ss) == IF ss = <<>> THEN <<>> ELSE ss[1] \o Concat(Tail(ss))

\* the numbers of records at which a page of the run ends
PageEnds(l) ==
    LET ps == FetchedPages(l)
    IN {Len(Concat(SubSeq(ps, 1, k))) : k \in 1..Len(ps)}

InitRun ==
    /\ trials = <<Serialize(OldTrial)>>
    /\ lastCall = NoCall
    /\ ret = <<>>
    /\ twice = FALSE
    /\ lastWritten = [x \in {trials[i].nct_id : i \in DOMAIN trials} |-> OldTrial]
    /\ prevWritten = <<>>
    /\ mode = "idle"
    /\ pc = "idle"
    /\ params = EmptyDict
    /\ response = [status |-> 0, body |-> EmptyDict]
    /\ studies = <<>>
    /\ processed = 0
    /\ error = ""
    /\ log = <<>>
    /\ budget429 = Max429
    /\ afterPage = trials
    /\ InitNormIdle

\* ---- the upstream: client.get(BASE_URL, params=params) and its answer ----
Answer(status, body) ==
    /\ pc = "request"
    /\ response' = [status |-> status, body |-> body]
    /\ log' = Append(log, [e |-> "GET", params |-> params, status |-> status, body |-> body])
    /\ pc' = "status"
    /\ UNCHANGED <<mode, params, studies, processed, error, afterPage>>
    /\ UNCHANGED <<dbVars, normVars>>

Upstream429 ==
    /\ budget429 > 0
    /\ budget429' = budget429 - 1
    /\ Answer(429, EmptyDict)

UpstreamError ==
    /\ \E status \in {404, 500} : Answer(status, EmptyDict)
    /\ UNCHANGED budget429

Upstream200 ==
    /\ \E content \in Pages :
          \/ Answer(200, [studies |-> content])
          \/ Answer(200, [studies |-> content, nextPageToken |-> <<>>])
          \/ /\ PageIndex(params) < MaxPages
             /\ Answer(200, [studies |-> content,
                             nextPageToken |-> <<PageIndex(params) + 1>>])
    /\ UNCHANGED budget429

\* ---- load.py main ----
LoadStart ==
    /\ pc = "idle"
    /\ mode' = "load"
    /\ DbInitDb
    /\ params' = [pageSize |-> LOAD_PAGE_SIZE, format |-> "json"]
    /\ pc' = "request"
    /\ UNCHANGED <<response, studies, processed, error, log, budget429, afterPage>>
    /\ UNCHANGED normVars

\* a mutant: the retry starts over from the first page
LoadBackoff_Restart ==
    /\ mode = "load" /\ pc = "status"
    /\ response.status = 429
    /\ log' = Append(log, Sleep(RETRY_429_WAIT))
    /\ params' = [pageSize |-> LOAD_PAGE_SIZE, format |-> "json"]
    /\ pc' = "request"
    /\ UNCHANGED <<mode, response, studies, processed, error, budget429, afterPage>>
    /\ UNCHANGED <<dbVars, normVars>>

\* lines 33-36: 429, wait and send the request again
LoadBackoff ==
    /\ mode = "load" /\ pc = "status"
    /\ response.status = 429
    /\ log' = Append(log, Sleep(RETRY_429_WAIT))
    /\ pc' = "request"
    /\ UNCHANGED <<mode, params, response, studies, processed, error, budget429, afterPage>>
    /\ UNCHANGED <<dbVars, normVars>>

\* line 37: response.raise_for_status() raises, main ends with the exception
LoadRaise ==
    /\ mode = "load" /\ pc = "status"
    /\ response.status # 429
    /\ RaisesForStatus(response.status)
    /\ error' = "HTTPStatusError"
    /\ pc' = "raised"
    /\ UNCHANGED <<mode, params, response, studies, processed, log, budget429, afterPage>>
    /\ UNCHANGED <<dbVars, normVars>>

\* lines 38-53: the page is normalized and written in one upsert_many
LoadPage ==
    /\ mode = "load" /\ pc = "status"
    /\ response.status # 429
    /\ ~RaisesForStatus(response.status)
    /\ studies' = Get(response.body, "studies", <<>>)
    /\ \E batch \in {NormalizeAll(studies')} : DbUpsertMany(batch)
    /\ log' = Append(log, [e |-> "upsert_many", n |-> Len(studies'),
                           raised |-> lastCall'.raised])
    /\ IF lastCall'.raised
       THEN /\ error' = "sqlite3.Error"
            /\ pc' = "raised"
            /\ UNCHANGED <<processed, afterPage>>
       ELSE /\ processed' = processed + Len(studies')
            /\ afterPage' = trials'
            /\ pc' = "cursor"
            /\ UNCHANGED error
    /\ UNCHANGED <<mode, params, response, budget429>>
    /\ UNCHANGED normVars

\* lines 55-60: stop without a continuation token, else set it and sleep
LoadCursor ==
    /\ mode = "load" /\ pc = "cursor"
    /\ LET next_token == Get(response.body, "nextPageToken", None)
       IN IF Falsy(next_token)
          THEN /\ pc' = "done"
               /\ UNCHANGED <<params, log>>
          ELSE /\ params' = SetKey(params, "pageToken", next_token)
               /\ log' = Append(log, Sleep(SLEEP_BETWEEN))
               /\ pc' = "request"
    /\ UNCHANGED <<mode, response, studies, processed, error, budget429, afterPage>>
    /\ UNCHANGED <<dbVars, normVars>>

\* ---- sync.py main with fetcher.py fetch_trials ----
SyncStart ==
    /\ pc = "idle"
    /\ mode' = "sync"
    /\ DbInitDb
    /\ \E yesterday \in {<<1>>, <<2>>} :
          params' = SetKey([pageSize |-> PAGE_SIZE, format |-> "json"], "query.term",
                           [area |-> "LastUpdatePostDate", from |-> yesterday, to |-> "MAX"])
    /\ pc' = "request"
    /\ UNCHANGED <<response, studies, processed, error, log, budget429, afterPage>>
    /\ UNCHANGED normVars

\* a mutant: a 429 is raised like any other error status
RetryBackoff_GiveUp ==
    /\ mode = "sync" /\ pc = "status"
    /\ response.status = 429
    /\ error' = "HTTPStatusError"
    /\ pc' = "raised"
    /\ UNCHANGED <<mode, params, response, studies, processed, log, budget429, afterPage>>
    /\ UNCHANGED <<dbVars, normVars>>

\* _get_with_retry lines 59-62
RetryBackoff ==
    /\ mode = "sync" /\ pc = "status"
    /\ response.status = 429
    /\ log' = Append(log, Sleep(RETRY_429_WAIT))
    /\ pc' = "request"
    /\ UNCHANGED <<mode, params, response, studies, processed, error, budget429, afterPage>>
    /\ UNCHANGED <<dbVars, normVars>>

\* _get_with_retry line 63: the exception leaves fetch_trials and sync.main
RetryRaise ==
    /\ mode = "sync" /\ pc = "status"
    /\ response.status # 429
    /\ RaisesForStatus(response.status)
    /\ error' = "HTTPStatusError"
    /\ pc' = "raised"
    /\ UNCHANGED <<mode, params, response, studies, processed, log, budget429, afterPage>>
    /\ UNCHANGED <<dbVars, normVars>>

\* fetch_trials lines 38-43: the page is added to studies
FetchPage ==
    /\ mode = "sync" /\ pc = "status"
    /\ response.status # 429
    /\ ~RaisesForStatus(response.status)
    /\ studies' = studies \o Get(response.body, "studies", <<>>)
    /\ pc' = "cursor"
    /\ UNCHANGED <<mode, params, response, processed, error, log, budget429, afterPage>>
    /\ UNCHANGED <<dbVars, normVars>>

\* a mutant: the sleep comes before the test of the token
FetchCursor_SleepFirst ==
    /\ mode = "sync" /\ pc = "cursor"
    /\ LET next_token == Get(response.body, "nextPageToken", None)
       IN IF Falsy(next_token)
          THEN /\ pc' = "upsert"
               /\ log' = Append(log, Sleep(SLEEP_BETWEEN))
               /\ UNCHANGED params
          ELSE /\ params' = SetKey(params, "pageToken", next_token)
               /\ log' = Append(log, Sleep(SLEEP_BETWEEN))
               /\ pc' = "request"
    /\ UNCHANGED <<mode, response, studies, processed, error, budget429, afterPage>>
    /\ UNCHANGED <<dbVars, normVars>>

\* a mutant: the request of the next page is built anew, without the filter
FetchCursor_DropsFilter ==
    /\ mode = "sync" /\ pc = "cursor"
    /\ LET next_token == Get(response.body, "nextPageToken", None)
       IN IF Falsy(next_token)
          THEN /\ pc' = "upsert"
               /\ UNCHANGED <<params, log>>
          ELSE /\ params' = SetKey([pageSize |-> PAGE_SIZE, format |-> "json"],
                                  "pageToken", next_token)
               /\ log' = Append(log, Sleep(SLEEP_BETWEEN))
               /\ pc' = "request"
    /\ UNCHANGED <<mode, response, studies, processed, error, budget429, afterPage>>
    /\ UNCHANGED <<dbVars, normVars>>

\* fetch_trials lines 45-52: return studies without a token, else set it and sleep
FetchCursor ==
    /\ mode = "sync" /\ pc = "cursor"
    /\ LET next_token == Get(response.body, "nextPageToken", None)
       IN IF Falsy(next_token)
          THEN /\ pc' = "upsert"
               /\ UNCHANGED <<params, log>>
          ELSE /\ params' = SetKey(params, "pageToken", next_token)
               /\ log' = Append(log, Sleep(SLEEP_BETWEEN))
               /\ pc' = "request"
    /\ UNCHANGED <<mode, response, studies, processed, error, budget429, afterPage>>
    /\ UNCHANGED <<dbVars, normVars>>

\* sync.main lines 20-22: one record of raw_trials is normalized and upserted
SyncUpsert ==
    /\ mode = "sync" /\ pc = "upsert"
    /\ processed < Len(studies)
    /\ \E trial \in {normalize(studies[processed + 1])} : DbUpsert(trial)
    /\ log' = Append(log, [e |-> "upsert", n |-> 1, raised |-> lastCall'.raised])
    /\ IF lastCall'.raised
       THEN /\ error' = "sqlite3.Error"
            /\ pc' = "raised"
            /\ UNCHANGED <<processed, afterPage>>
       ELSE /\ processed' = processed + 1
            /\ afterPage' = IF processed + 1 \in PageEnds(log) THEN trials' ELSE afterPage
            /\ UNCHANGED <<pc, error>>
    /\ UNCHANGED <<mode, params, response, studies, budget429>>
    /\ UNCHANGED normVars

\* sync.main line 24: the loop is over
SyncDone ==
    /\ mode = "sync" /\ pc = "upsert"
    /\ processed = Len(studies)
    /\ pc' = "done"
    /\ UNCHANGED <<mode, params, response, studies, processed, error, log, budget429, afterPage>>
    /\ UNCHANGED <<dbVars, normVars>>

NextRun ==
    \/ Upstream429
    \/ UpstreamError
    \/ Upstream200
    \/ LoadStart
    \/ LoadBackoff
    \/ LoadRaise
    \/ LoadPage
    \/ LoadCursor
    \/ SyncStart
    \/ RetryBackoff
    \/ RetryRaise
    \/ FetchPage
    \/ FetchCursor
    \/ SyncUpsert
    \/ SyncDone

\* One run of load.py or of sync.py against the upstream
SpecRun == InitRun /\ [][NextRun]_vars

\* The same, where the script and the upstream keep taking their steps
SpecRunFair == SpecRun /\ WF_vars(NextRun)

(***************************************************************************)
(* Claims about a run, checked under SpecRun (C8 under SpecRunFair).       *)
(***************************************************************************)
IsGet(entry) == entry.e = "GET"
Gets == {i \in DOMAIN log : IsGet(log[i])}
Gets200 == {i \in Gets : log[i].status = 200}
Gets429 == {i \in Gets : log[i].status = 429}
Ended == pc = "done" \/ pc = "raised"

\* an HTTP error status other than 429
FatalStatus(status) == status >= 400 /\ status # 429

\* no continuation cursor: the key is absent or its value is empty
NoCursor(body) == "nextPageToken" \notin DOMAIN body \/ body["nextPageToken"] = <<>>

\* C5: a response with an error status other than 429 ends the run with the
\* error, without a write and without another request; the table is then the
\* one left by the last page committed in the run.
C5_FatalUpstream ==
    /\ [](pc = "raised" /\ error = "HTTPStatusError" =>
             /\ trials = afterPage
             /\ FatalStatus(log[Len(log)].status))
    /\ [][/\ (pc = "status" /\ FatalStatus(response.status)) =>
                /\ pc' = "raised"
                /\ error' = "HTTPStatusError"
                /\ trials' = trials
                /\ log' = log
          /\ ~Ended]_vars

\* load.py met an error status after it had committed a page with records
C5_Witness ==
    /\ mode = "load"
    /\ pc = "raised"
    /\ error = "HTTPStatusError"
    /\ processed > 0
    /\ Len(trials) = 2

\* C6: when writing a record fails in a run, the run ends with the error and
\* the table is the one left by the last page persisted before the page whose
\* record failed: none of that page's records is committed.
C6_PersistenceFailure ==
    (pc = "raised" /\ error = "sqlite3.Error") => trials = afterPage

\* C6 for the full load alone: load.py writes a page in one upsert_many
C6_FullLoadOnly == mode = "load" => C6_PersistenceFailure

\* C7: each 429 answer is followed by exactly one backoff wait and then by a
\* request with the same parameters, there is no backoff wait without a 429,
\* and the records delivered are those of the successful responses.
C7_RetryAfter429 ==
    /\ \A i \in Gets429 :
          /\ i + 1 <= Len(log) => log[i + 1] = Sleep(RETRY_429_WAIT)
          /\ i + 2 <= Len(log) => IsGet(log[i + 2]) /\ log[i + 2].params = log[i].params
          /\ i = Len(log) => pc = "status"
    /\ \A i \in DOMAIN log :
          log[i] = Sleep(RETRY_429_WAIT) => i - 1 \in Gets429
    /\ (mode = "load" /\ pc = "cursor") =>
          studies = log[CHOOSE i \in Gets200 : \A j \in Gets200 : j <= i].body.studies
    /\ (mode = "sync" /\ pc \in {"cursor", "upsert", "done"}) =>
          studies = Concat(FetchedPages(log))

\* the request of a second page was answered 429, then 200, and its records
\* were delivered
C7_Witness ==
    /\ pc = "cursor"
    /\ studies # <<>>
    /\ \E i \in Gets429 :
          /\ "pageToken" \in DOMAIN log[i].params
          /\ i + 2 = Len(log)
          /\ log[i + 2].status = 200
          /\ log[i + 2].body.studies # <<>>

\* C8: a 429 is always answered by the backoff wait and the same request
\* again, never by giving up or moving on; no run ends on a 429; and once the
\* upstream stops answering 429 the run comes to its end.
C8_UnboundedRetry ==
    /\ [][(pc = "status" /\ response.status = 429) =>
             /\ pc' = "request"
             /\ params' = params
             /\ error' = ""
             /\ log' = Append(log, Sleep(RETRY_429_WAIT))]_vars
    /\ [](pc = "raised" => response.status # 429)
    /\ <>Ended

\* a run ended well after the same request was answered 429 as often as the
\* upstream may
C8_Witness ==
    /\ pc = "done"
    /\ budget429 = 0
    /\ Cardinality(Gets429) = Max429
    /\ Gets429 = 1..(2 * Max429 - 1) \ {i \in 1..(2 * Max429) : i % 2 = 0}

\* C9: no request follows a successful response without continuation cursor,
\* the fetch does not end before such a response, and a first page without
\* cursor ends the fetch after that one page, whose records are all delivered.
C9_StopsWithoutCursor ==
    /\ \A i \in Gets200 :
          NoCursor(log[i].body) => \A j \in Gets : j <= i
    /\ (pc \in {"upsert", "done"} \/ (error = "sqlite3.Error" /\ mode = "sync")) =>
          /\ Gets200 # {}
          /\ \E i \in Gets200 : NoCursor(log[i].body) /\ \A j \in Gets : j <= i
    /\ (pc \in {"cursor", "upsert", "done"} /\ Gets200 # {}) =>
          LET first == CHOOSE i \in Gets200 : \A j \in Gets200 : i <= j
          IN NoCursor(log[first].body) =>
                /\ Cardinality(Gets200) = 1
                /\ studies = log[first].body.studies

\* the fetch ended after a single page that came without nextPageToken
C9_Witness ==
    /\ pc = "done"
    /\ Cardinality(Gets) = 1
    /\ \A i \in Gets : "nextPageToken" \notin DOMAIN log[i].body
    /\ studies # <<>>

\* the pages fetched in the run whose records were not all handed to the
\* persistence layer yet
PagesHanded ==
    IF mode = "load"
    THEN Cardinality({i \in DOMAIN log : log[i].e = "upsert_many"})
    ELSE LET handed == Cardinality({i \in DOMAIN log : log[i].e = "upsert"})
             ps == FetchedPages(log)
         IN Cardinality({k \in 1..Len(ps) : Len(Concat(SubSeq(ps, 1, k))) <= handed})

PagesHeld == Len(FetchedPages(log)) - PagesHanded

\* C10: at most one fetched page is held that was not handed to persistence,
\* and no request is sent while such a page is held.
C10_OnePageAtATime ==
    /\ PagesHeld <= 1
    /\ pc = "request" => PagesHeld = 0

\* C10 for the full load alone: load.py persists a page before the next request
C10_FullLoadOnly == mode = "load" => C10_OnePageAtATime

(***************************************************************************)
(* A run with the read endpoint (api.py) calling the persistence layer     *)
(* while the run goes on.                                                  *)
(***************************************************************************)
NextServe ==
    \/ NextRun
    \/ InitDb
    \/ IsEmpty
    \/ \E date_str \in Dates : GetSince(date_str)

SpecServe == InitRun /\ [][NextServe]_vars

\* the table a run starts on
InitialTable == <<Serialize(OldTrial)>>

\* the table after the first n of the pages were each written by upsert_many
RECURSIVE StreamingStore(_, _, _)
StreamingStore(tbl, pages, n) ==
    IF n = 0 THEN tbl
    ELSE LET before == StreamingStore(tbl, pages, n - 1)
         IN WithConn(before, UpsertManyOutcome(before, NormalizeAll(pages[n])))

\* C11: what a get_since during a run returns is what it would return on the
\* table with some whole number of the fetched pages applied, never on a
\* table with a part of a page.
C11_PageIsolation ==
    lastCall.op = "get_since" =>
        \E k \in 0..Len(FetchedPages(log)) :
            ret = GetSinceResult(StreamingStore(InitialTable, FetchedPages(log), k),
                                 lastCall.arg)

\* C11 for the full load alone
C11_FullLoadOnly == mode = "load" => C11_PageIsolation

(***************************************************************************)
(* normalizer.py on any decoded JSON value.  A value carries its Python    *)
(* type: None, bool, int, str (a sequence of characters), list, dict.      *)
(* Floats are not modelled.                                                *)
(***************************************************************************)
MaxLocs == 3       \* longest locations list of an input

JNull == [t |-> "null"]
JBool(b) == [t |-> "bool", v |-> b]
JInt(n) == [t |-> "int", v |-> n]
JStr(s) == [t |-> "str", v |-> s]
JList(l) == [t |-> "list", v |-> l]
JDict(d) == [t |-> "dict", v |-> d]

\* the defaults the code passes to .get
EmptyJDict == JDict(EmptyDict)
EmptyJList == JList(<<>>)
EmptyJStr == JStr(<<>>)

\* only a dict has .get; on anything else x.get raises AttributeError
IsDict(x) == x.t = "dict"

\* x.get(key, default) of a dict x
DictGet(x, key, default) == Get(x.v, key, default)

\* bool(x)
Truthy(x) ==
    CASE x.t = "null" -> FALSE
      [] x.t = "bool" -> x.v
      [] x.t = "int" -> x.v # 0
      [] x.t \in {"str", "list"} -> x.v # <<>>
      [] x.t = "dict" -> DOMAIN x.v # {}

\* hash(x) succeeds
Hashable(x) == x.t \notin {"list", "dict"}

\* [m.get(...) for m in x] raises: x is not iterable (TypeError), or one of
\* the items it yields is not a dict (AttributeError); a dict yields its keys
\* and a str its characters, which are strs
ForGetRaises(x) ==
    CASE x.t = "list" -> \E i \in DOMAIN x.v : ~IsDict(x.v[i])
      [] x.t = "dict" -> DOMAIN x.v # {}
      [] x.t = "str" -> x.v # <<>>
      [] OTHER -> TRUE

\* the items of x when the loop over x did not raise
Items(x) == IF x.t = "list" THEN x.v ELSE <<>>

DigitChars == {"0", "1", "2", "3", "4", "5", "6", "7", "8", "9"}

DigitVal(c) ==
    CASE c = "0" -> 0 [] c = "1" -> 1 [] c = "2" -> 2 [] c = "3" -> 3 [] c = "4" -> 4
      [] c = "5" -> 5 [] c = "6" -> 6 [] c = "7" -> 7 [] c = "8" -> 8 [] c = "9" -> 9

\* the value of the first n characters of a digit string
RECURSIVE DigitsValue(_, _)
DigitsValue(s, n) ==
    IF n = 0 THEN 0 ELSE 10 * DigitsValue(s, n - 1) + DigitVal(s[n])

IsDigits(s) == s # <<>> /\ \A i \in DOMAIN s : s[i] \in DigitChars

\* int(s) of a str: an optional sign and digits (surrounding blanks and
\* underscores between digits, which int also takes, are not modelled)
IntOfStr(s) ==
    IF s # <<>> /\ s[1] \in {"-", "+"}
    THEN IF IsDigits(Tail(s))
         THEN [raised |-> FALSE,
               v |-> IF s[1] = "-" THEN 0 - DigitsValue(Tail(s), Len(s) - 1)
                     ELSE DigitsValue(Tail(s), Len(s) - 1)]
         ELSE [raised |-> TRUE, v |-> 0]
    ELSE IF IsDigits(s) THEN [raised |-> FALSE, v |-> DigitsValue(s, Len(s))]
         ELSE [raised |-> TRUE, v |-> 0]

\* int(x): ValueError for a str that is no number, TypeError for None, list, dict
IntOf(x) ==
    CASE x.t = "int" -> [raised |-> FALSE, v |-> x.v]
      [] x.t = "bool" -> [raised |-> FALSE, v |-> IF x.v THEN 1 ELSE 0]
      [] x.t = "str" -> IntOfStr(x.v)
      [] OTHER -> [raised |-> TRUE, v |-> 0]

\* lines 53-56: int(count or 0), 0 on ValueError and TypeError
Enrollment(count) ==
    LET parsed == IntOf(IF Truthy(count) THEN count ELSE JInt(0))
    IN IF parsed.raised THEN 0 ELSE parsed.v

\* a mutant: the empty and missing countries are kept
Countries_KeepEmpty(locations) ==
    {DictGet(Items(locations)[i], "country", EmptyJStr) : i \in DOMAIN Items(locations)}

\* line 49: the set of the truthy country values
Countries(locations) ==
    {DictGet(Items(locations)[i], "country", EmptyJStr) :
        i \in {j \in DOMAIN Items(locations) :
                  Truthy(DictGet(Items(locations)[j], "country", JNull))}}

\* line 49 raises: locations is not iterable, an entry is not a dict, or a
\* truthy country cannot be hashed
CountriesRaises(locations) ==
    \/ ForGetRaises(locations)
    \/ \E i \in DOMAIN Items(locations) :
          LET country == DictGet(Items(locations)[i], "country", JNull)
          IN Truthy(country) /\ ~Hashable(country)

\* list(a set): the elements in some order
Orderings(S) ==
    {order \in [1..Cardinality(S) -> S] :
        \A i, j \in 1..Cardinality(S) : i # j => order[i] # order[j]}

\* x.get(key, {}).get(...) raises: x or the value under key is not a dict
NestedGetRaises(x, key) == ~IsDict(x) \/ ~IsDict(DictGet(x, key, EmptyJDict))

\* normalize(raw) raises, for a dict raw; the disjuncts follow the order of
\* the statements, each one read only when those before it did not raise
NormalizeRaises(raw) ==
    LET protocol == DictGet(raw, "protocolSection", EmptyJDict)
        derived == DictGet(raw, "derivedSection", EmptyJDict)
        identification == DictGet(protocol, "identificationModule", EmptyJDict)
        status_module == DictGet(protocol, "statusModule", EmptyJDict)
        design == DictGet(protocol, "designModule", EmptyJDict)
        sponsor_module == DictGet(protocol, "sponsorCollaboratorsModule", EmptyJDict)
        conditions_module == DictGet(protocol, "conditionsModule", EmptyJDict)
        interventions_module == DictGet(protocol, "armsInterventionsModule", EmptyJDict)
        eligibility == DictGet(protocol, "eligibilityModule", EmptyJDict)
        locations_module == DictGet(protocol, "contactsLocationsModule", EmptyJDict)
        condition_browse == DictGet(derived, "conditionBrowseModule", EmptyJDict)
        intervention_browse == DictGet(derived, "interventionBrowseModule", EmptyJDict)
    IN \/ ~IsDict(protocol)
       \/ ~IsDict(derived)
       \/ ~IsDict(identification)
       \/ ~IsDict(design)
       \/ ~IsDict(interventions_module)
       \/ ForGetRaises(DictGet(interventions_module, "interventions", EmptyJList))
       \/ ~IsDict(condition_browse)
       \/ ForGetRaises(DictGet(condition_browse, "meshes", EmptyJList))
       \/ ~IsDict(intervention_browse)
       \/ ForGetRaises(DictGet(intervention_browse, "meshes", EmptyJList))
       \/ ~IsDict(locations_module)
       \/ CountriesRaises(DictGet(locations_module, "locations", EmptyJList))
       \/ ~IsDict(DictGet(design, "enrollmentInfo", EmptyJDict))
       \/ NestedGetRaises(sponsor_module, "leadSponsor")
       \/ NestedGetRaises(status_module, "startDateStruct")
       \/ NestedGetRaises(status_module, "completionDateStruct")
       \/ NestedGetRaises(status_module, "lastUpdatePostDateStruct")
       \/ ~IsDict(conditions_module)
       \/ ~IsDict(eligibility)

\* [{"type": iv.get("type", ""), "name": iv.get("name", "")} for iv in x]
InterventionsOf(x) ==
    JList([i \in DOMAIN Items(x) |->
              JDict([type |-> DictGet(Items(x)[i], "type", EmptyJStr),
                     name |-> DictGet(Items(x)[i], "name", EmptyJStr)])])

\* [m.get("term", "") for m in x]
TermsOf(x) == JList([i \in DOMAIN Items(x) |-> DictGet(Items(x)[i], "term", EmptyJStr)])

\* the dict normalize returns when it does not raise, with countries still
\* the set of line 49; of the 22 keys the multi-valued ones, enrollment and
\* four of the plain ones are kept
NormalizeValue(raw) ==
    LET protocol == DictGet(raw, "protocolSection", EmptyJDict)
        derived == DictGet(raw, "derivedSection", EmptyJDict)
        identification == DictGet(protocol, "identificationModule", EmptyJDict)
        status_module == DictGet(protocol, "statusModule", EmptyJDict)
        design == DictGet(protocol, "designModule", EmptyJDict)
        conditions_module == DictGet(protocol, "conditionsModule", EmptyJDict)
        interventions_module == DictGet(protocol, "armsInterventionsModule", EmptyJDict)
        locations_module == DictGet(protocol, "contactsLocationsModule", EmptyJDict)
        condition_browse == DictGet(derived, "conditionBrowseModule", EmptyJDict)
        intervention_browse == DictGet(derived, "interventionBrowseModule", EmptyJDict)
        enrollment_info == DictGet(design, "enrollmentInfo", EmptyJDict)
    IN [nct_id |-> DictGet(identification, "nctId", EmptyJStr),
        brief_title |-> DictGet(identification, "briefTitle", EmptyJStr),
        phases |-> DictGet(design, "phases", EmptyJList),
        last_updated |-> DictGet(DictGet(status_module, "lastUpdatePostDateStruct",
                                         EmptyJDict), "date", EmptyJStr),
        conditions |-> DictGet(conditions_module, "conditions", EmptyJList),
        interventions |->
            InterventionsOf(DictGet(interventions_module, "interventions", EmptyJList)),
        mesh_terms |-> TermsOf(DictGet(condition_browse, "meshes", EmptyJList)),
        drug_mesh_terms |-> TermsOf(DictGet(intervention_browse, "meshes", EmptyJList)),
        countries |-> Countries(DictGet(locations_module, "locations", EmptyJList)),
        enrollment |-> JInt(Enrollment(DictGet(enrollment_info, "count", JInt(0)))),
        has_results |-> DictGet(raw, "hasResults", JBool(FALSE))]

\* every way one call normalize(raw) can end: raised, or returned a dict,
\* with the countries in any of the orders list(set) may give
NormalizeResults(raw) ==
    IF NormalizeRaises(raw)
    THEN {[called |-> TRUE, raised |-> TRUE]}
    ELSE {[called |-> TRUE, raised |-> FALSE,
           value |-> [NormalizeValue(raw) EXCEPT !.countries = JList(order)]] :
             order \in Orderings(NormalizeValue(raw).countries)}

\* ---- the raw studies normalize is called on ----
US == <<"U", "S">>
FR == <<"F", "R">>
NotANumber == <<"n", "o", "t", "-", "a", "-", "n", "u", "m", "b", "e", "r">>

\* a location entry: with a country, with an empty one, with none, with null
LocationEntries ==
    {JDict([country |-> JStr(US)]),
     JDict([country |-> JStr(FR)]),
     JDict([country |-> EmptyJStr]),
     JDict([facility |-> JStr(<<"X">>)]),
     JDict([country |-> JNull])}

\* values of enrollmentInfo.count
Counts ==
    {JNull, JInt(0), JInt(5), JInt(-5), JBool(TRUE), EmptyJStr,
     JStr(<<"1", "2">>), JStr(<<"-", "3">>), JStr(NotANumber), JList(<<JInt(1)>>)}

\* enrollmentInfo: without count, or with one of the counts
EnrollmentInfos == {EmptyJDict} \cup {JDict([count |-> c]) : c \in Counts}

\* a study whose nesting is as the upstream documents it
Study(enrollment_info, locations) ==
    JDict([protocolSection |->
              JDict([identificationModule |->
                         JDict([nctId |-> JStr(<<"N", "1">>), briefTitle |-> JStr(<<"A">>)]),
                     statusModule |->
                         JDict([lastUpdatePostDateStruct |->
                                    JDict([date |-> JStr(<<"2", "0">>)])]),
                     designModule |->
                         JDict([phases |-> JList(<<JStr(<<"P", "1">>)>>),
                                enrollmentInfo |-> enrollment_info]),
                     conditionsModule |-> JDict([conditions |-> JList(<<JStr(<<"C">>)>>)]),
                     armsInterventionsModule |->
                         JDict([interventions |->
                                    JList(<<JDict([type |-> JStr(<<"D">>)])>>)]),
                     contactsLocationsModule |-> JDict([locations |-> JList(locations)])]),
           derivedSection |->
              JDict([conditionBrowseModule |->
                         JDict([meshes |-> JList(<<JDict([term |-> JStr(<<"T">>)])>>)])]),
           hasResults |-> JBool(TRUE)])

WellFormedStudies ==
    {Study(info, locations) :
        info \in EnrollmentInfos, locations \in SeqsUpTo(LocationEntries, MaxLocs)}

\* studies in which a nested structure is absent
SparseStudies ==
    {EmptyJDict,
     JDict([protocolSection |-> EmptyJDict]),
     JDict([protocolSection |-> JDict([designModule |-> EmptyJDict])]),
     JDict([protocolSection |-> JDict([contactsLocationsModule |-> EmptyJDict])]),
     JDict([derivedSection |-> EmptyJDict, hasResults |-> JBool(FALSE)])}

\* a study with value x in the place of module key of protocolSection
WithModule(key, x) == JDict([protocolSection |-> JDict(SetKey(EmptyDict, key, x))])

\* studies in which a nested structure is null or of the wrong type
MalformedStudies ==
    {JDict([protocolSection |-> JNull]),
     JDict([protocolSection |-> JList(<<>>)]),
     JDict([derivedSection |-> JNull]),
     WithModule("identificationModule", JNull),
     WithModule("designModule", JStr(<<"x">>)),
     WithModule("designModule", JDict([phases |-> JNull])),
     WithModule("designModule", JDict([enrollmentInfo |-> JNull])),
     WithModule("designModule", JDict([enrollmentInfo |-> JInt(5)])),
     WithModule("conditionsModule", JDict([conditions |-> JNull])),
     WithModule("armsInterventionsModule", JDict([interventions |-> JNull])),
     WithModule("armsInterventionsModule", JDict([interventions |-> JList(<<JStr(<<"x">>)>>)])),
     WithModule("contactsLocationsModule", JDict([locations |-> JNull])),
     WithModule("contactsLocationsModule", JDict([locations |-> JList(<<JNull>>)])),
     WithModule("contactsLocationsModule",
                JDict([locations |-> JList(<<JDict([country |-> JList(<<JStr(US)>>)])>>)])),
     WithModule("statusModule", JDict([lastUpdatePostDateStruct |-> JNull])),
     WithModule("sponsorCollaboratorsModule", JDict([leadSponsor |-> JStr(<<"x">>)])),
     JDict([derivedSection |-> JDict([conditionBrowseModule |-> JDict([meshes |-> JNull])])])}

RawStudies == WellFormedStudies \cup SparseStudies \cup MalformedStudies

InitNorm ==
    /\ trials = <<>>
    /\ lastCall = NoCall
    /\ ret = <<>>
    /\ twice = FALSE
    /\ lastWritten = <<>>
    /\ prevWritten = <<>>
    /\ InitRunIdle
    /\ rawStudy \in RawStudies
    /\ normalized = [called |-> FALSE]

\* normalized = normalize(raw)
Normalize ==
    /\ ~normalized.called
    /\ normalized' \in NormalizeResults(rawStudy)
    /\ UNCHANGED <<rawStudy, dbVars, runVars>>

NextNorm == Normalize

\* normalize called once on any of the raw studies
SpecNorm == InitNorm /\ [][NextNorm]_vars

\* the six multi-valued keys of the normalized dict
MultiValued ==
    {"phases", "conditions", "interventions", "mesh_terms", "drug_mesh_terms", "countries"}

\* C12: normalize never raises, whatever is absent, null or of another type in
\* the raw study, and every multi-valued field of its result is a list.
C12_NormalizeTotal ==
    normalized.called =>
        /\ ~normalized.raised
        /\ \A key \in MultiValued : normalized.value[key].t = "list"

\* C12 for the studies in which nested structures are absent and none is
\* null or of another type
C12_AbsentIsDefaulted ==
    rawStudy \in SparseStudies => C12_NormalizeTotal

\* the enrollmentInfo.count of a well-formed study, None when it has none
CountOf(raw) ==
    DictGet(raw.v["protocolSection"].v["designModule"].v["enrollmentInfo"], "count", JNull)

\* C13: the enrollment normalize produces is an integer that is not negative,
\* and it is 0 when the count is missing, null or no integer; normalize does
\* not raise on account of the count.
C13_EnrollmentNonNegative ==
    (normalized.called /\ rawStudy \in WellFormedStudies) =>
        /\ ~normalized.raised
        /\ normalized.value.enrollment.t = "int"
        /\ normalized.value.enrollment.v >= 0
        /\ IntOf(CountOf(rawStudy)).raised => normalized.value.enrollment.v = 0

\* C13 without the sign: a count that is missing, null or no integer gives 0
\* and does not make normalize raise
C13_UnparsableIsZero ==
    (normalized.called /\ rawStudy \in WellFormedStudies) =>
        /\ ~normalized.raised
        /\ normalized.value.enrollment.t = "int"
        /\ IntOf(CountOf(rawStudy)).raised => normalized.value.enrollment.v = 0

\* the location entries of a raw study that normalize did not raise on
LocationsOf(raw) ==
    Items(DictGet(DictGet(DictGet(raw, "protocolSection", EmptyJDict),
                          "contactsLocationsModule", EmptyJDict),
                  "locations", EmptyJList))

\* the country values of the entries that have one and not an empty one
NonEmptyCountries(locations) ==
    {locations[i].v["country"] :
        i \in {j \in DOMAIN locations :
                  /\ "country" \in DOMAIN locations[j].v
                  /\ locations[j].v["country"] # JNull
                  /\ locations[j].v["country"] # EmptyJStr}}

\* C15: countries holds exactly the distinct non-empty country values of the
\* location entries, each once, in any order; entries without a country or
\* with an empty one add nothing.
C15_Countries ==
    (normalized.called /\ ~normalized.raised) =>
        LET got == normalized.value.countries.v
            expected == NonEmptyCountries(LocationsOf(rawStudy))
        IN /\ {got[i] : i \in DOMAIN got} = expected
           /\ Len(got) = Cardinality(expected)

\* countries US, US, FR gave the two elements FR and US, FR first
C15_Witness ==
    /\ normalized.called /\ ~normalized.raised
    /\ LocationsOf(rawStudy) = <<JDict([country |-> JStr(US)]), JDict([country |-> JStr(US)]),
                                 JDict([country |-> JStr(FR)])>>
    /\ normalized.value.countries = JList(<<JStr(FR), JStr(US)>>)

\* the other order, and an entry without a country that added nothing
C15_WitnessMissing ==
    /\ normalized.called /\ ~normalized.raised
    /\ LocationsOf(rawStudy) = <<JDict([country |-> JStr(US)]),
                                 JDict([facility |-> JStr(<<"X">>)]),
                                 JDict([country |-> JStr(FR)])>>
    /\ normalized.value.countries = JList(<<JStr(US), JStr(FR)>>)

(***************************************************************************)
(* Storage round trip, under SpecDB.  Of the six list fields the model     *)
(* keeps phases, a list of strs; all six go through the same json.dumps    *)
(* and json.loads.                                                         *)
(***************************************************************************)
\* C14: in every row get_since returns, the list field is the list of the
\* trial last upserted under that nct_id, element for element in the same
\* order, an empty list as an empty list, and has_results is its boolean.
C14_StorageRoundTrip ==
    lastCall.op = "get_since" =>
        \A k \in DOMAIN ret :
            LET T == lastWritten[ret[k].nct_id]
            IN /\ Len(ret[k].phases) = Len(T.phases)
               /\ \A i \in DOMAIN T.phases : ret[k].phases[i] = T.phases[i]
               /\ ret[k].has_results \in BOOLEAN
               /\ ret[k].has_results = T.has_results

\* get_since returned a trial with two phases and results, and one with an
\* empty list and none
C14_Witness ==
    /\ lastCall.op = "get_since"
    /\ \E k \in DOMAIN ret : ret[k].phases = <<"PHASE1", "PHASE2">> /\ ret[k].has_results
    /\ \E k \in DOMAIN ret : ret[k].phases = <<>> /\ ~ret[k].has_results

\* C16: no step of a call or of a run, ended well or not, takes an nct_id out
\* of the table, and init_db, get_since and is_empty leave the table as it is.
C16_NoDeletion ==
    [][/\ IdsOf(trials) \subseteq IdsOf(trials')
       /\ lastCall'.op \in {"init_db", "get_since", "is_empty"} => trials' = trials]_vars

\* init_db was called after a run that failed with two rows committed
C16_Witness ==
    /\ lastCall.op = "init_db"
    /\ pc = "raised"
    /\ Len(trials) = 2

(***************************************************************************)
(* Order of requests, sleeps and writes in one run, read off the log.      *)
(***************************************************************************)
PolitenessSleeps == {k \in DOMAIN log : log[k] = Sleep(SLEEP_BETWEEN)}
BackoffSleeps == {k \in DOMAIN log : log[k] = Sleep(RETRY_429_WAIT)}

\* successful requests i < j with no successful request between them
Consecutive200(i, j) ==
    /\ i \in Gets200 /\ j \in Gets200 /\ i < j
    /\ \A m \in Gets200 : ~(i < m /\ m < j)

\* C17: between two consecutive successful requests there is exactly one
\* sleep of SLEEP_BETWEEN; it comes when the earlier page has been handled
\* (written by upsert_many in load.py, added to studies in fetch_trials) and
\* before the next request is first sent; the 429 waits of that request are
\* all there besides it; and no such sleep follows a page without a cursor.
C17_PolitenessDelay ==
    /\ \A i, j \in DOMAIN log :
          Consecutive200(i, j) =>
             LET between == {k \in PolitenessSleeps : i < k /\ k < j}
                 handled == IF mode = "load" THEN 1 ELSE 0
             IN /\ between = {i + handled + 1}
                /\ mode = "load" =>
                      log[i + 1] = [e |-> "upsert_many", n |-> Len(log[i].body.studies),
                                    raised |-> FALSE]
                /\ IsGet(log[i + handled + 2])
                /\ Cardinality({k \in BackoffSleeps : i < k /\ k < j})
                      = Cardinality({k \in Gets429 : i < k /\ k < j})
    /\ \A k \in PolitenessSleeps :
          \E i \in Gets200 :
             /\ i < k
             /\ ~NoCursor(log[i].body)
             /\ \A m \in Gets : ~(i < m /\ m < k)
    /\ \A i \in Gets200 :
          NoCursor(log[i].body) => \A k \in PolitenessSleeps : k < i
    /\ (mode = "sync" /\ log # <<>> /\ log[Len(log)] = Sleep(SLEEP_BETWEEN)) =>
          studies = Concat(FetchedPages(log))

\* a full load of two pages ended; the request of the second page was first
\* answered 429
C17_Witness ==
    /\ mode = "load" /\ pc = "done"
    /\ \E i \in Gets200 :
          /\ i + 5 <= Len(log)
          /\ log[i + 2] = Sleep(SLEEP_BETWEEN)
          /\ log[i + 3].e = "GET" /\ log[i + 3].status = 429
          /\ log[i + 4] = Sleep(RETRY_429_WAIT)
          /\ log[i + 5].e = "GET" /\ log[i + 5].status = 200

\* C18: when a full load has ended without error, every record of every page
\* the upstream returned has a row under its nct_id, that row is the
\* normalization of the last record with that nct_id in page order, and
\* processed is the number of records of all the pages.
C18_NoPageDropped ==
    (mode = "load" /\ pc = "done") =>
        LET records == Concat(FetchedPages(log))
            normal == [i \in DOMAIN records |-> normalize(records[i])]
        IN /\ \A i \in DOMAIN records :
                 \E k \in DOMAIN trials :
                    /\ trials[k].nct_id = normal[i].nct_id
                    /\ trials[k] = Serialize(normal[LastIndex(normal, normal[i].nct_id)])
           /\ processed = Len(records)

\* a full load of two pages of two records ended; the second page holds the
\* trial of the first page again
C18_Witness ==
    /\ mode = "load" /\ pc = "done"
    /\ processed = 4
    /\ FetchedPages(log) = <<<<R1a, R2>>, <<R1a, R1b>>>>

\* the request sent before request j, for a request j that is not the first
PreviousGet(j) == CHOOSE i \in Gets : i < j /\ \A m \in Gets : m < j => m <= i

\* the filter of fetch_trials(since_date): AREA[LastUpdatePostDate]RANGE[since_date,MAX]
IsSinceFilter(term) ==
    /\ term.area = "LastUpdatePostDate"
    /\ term.to = "MAX"
    /\ term.from \in {<<1>>, <<2>>}

\* C19: the first request of a run carries no pageToken; a request after a
\* 429 carries the parameters of the request it retries; a request after a
\* 200 carries the nextPageToken of that response; all requests carry the
\* same pageSize and format and, in sync.py, the same filter on
\* LastUpdatePostDate from since_date on.
C19_CursorContinuation ==
    \A j \in Gets :
        /\ IF \A i \in Gets : j <= i
           THEN "pageToken" \notin DOMAIN log[j].params
           ELSE LET before == log[PreviousGet(j)]
                IN IF before.status = 429
                   THEN log[j].params = before.params
                   ELSE /\ before.status = 200
                        /\ "pageToken" \in DOMAIN log[j].params
                        /\ log[j].params["pageToken"] = before.body["nextPageToken"]
        /\ log[j].params["pageSize"] = (IF mode = "load" THEN LOAD_PAGE_SIZE ELSE PAGE_SIZE)
        /\ log[j].params["format"] = "json"
        /\ IF mode = "sync"
           THEN /\ "query.term" \in DOMAIN log[j].params
                /\ IsSinceFilter(log[j].params["query.term"])
                /\ \A i \in Gets :
                      /\ "query.term" \in DOMAIN log[i].params
                      /\ log[i].params["query.term"] = log[j].params["query.term"]
           ELSE "query.term" \notin DOMAIN log[j].params

\* a sync whose request of the second page was answered 429 and sent again
C19_Witness ==
    /\ mode = "sync"
    /\ \E i \in Gets200 :
          /\ i + 4 <= Len(log)
          /\ log[i + 2].e = "GET" /\ log[i + 2].status = 429
          /\ log[i + 4].e = "GET" /\ log[i + 4].status = 200
          /\ log[i + 4].params["pageToken"] = log[i].body["nextPageToken"]

\* the table after the first n of the records were each normalized and
\* written by upsert, as sync.py does with the list fetch_trials returns
RECURSIVE BufferingStore(_, _, _)
BufferingStore(tbl, records, n) ==
    IF n = 0 THEN tbl
    ELSE LET before == BufferingStore(tbl, records, n - 1)
         IN WithConn(before, Execute(before, Serialize(normalize(records[n]))))

\* C20: a run that ended without error leaves the table that both ways of
\* storing the pages it fetched give from the initial table, and the two give
\* the same table: page by page with upsert_many (load.py), and record by
\* record with upsert after the last page (sync.py).
C20_PathsAgree ==
    pc = "done" =>
        LET pages == FetchedPages(log)
            streaming == StreamingStore(InitialTable, pages, Len(pages))
            buffering == BufferingStore(InitialTable, Concat(pages), Len(Concat(pages)))
        IN /\ streaming = buffering
           /\ mode = "load" => trials = streaming
           /\ mode = "sync" => trials = buffering

\* a sync of two pages of two records ended; the second page holds the trial
\* of the first page twice
C20_Witness ==
    /\ mode = "sync" /\ pc = "done"
    /\ FetchedPages(log) = <<<<R1a, R2>>, <<R1a, R1b>>>>
    /\ Len(trials) = 2

====
